---- MODULE Spec2Model ----
(***************************************************************************)
(* Model of index.js: the equirectangular projection, the GeoJSON path     *)
(* builder, the offscreen pre-render cache and the 2D/3D toggle.           *)
(*                                                                         *)
(* JavaScript values are tagged records [k, v]: k is the kind ("null",     *)
(* "undef", "num", "arr", "obj"), v the payload (always a sequence).       *)
(* Numbers are exact rationals <<n, d>> with d > 0 in lowest terms.        *)
(***************************************************************************)
EXTENDS Integers, Sequences, FiniteSets, TLC

VARIABLES is3D, landData, outlineData, map2DRendered,
          offscreen, canvas2D, display, button,
          rafQueue, timers, resizeCount, clickCount, preRenders, last,
          proj, draw

vars == <<is3D, landData, outlineData, map2DRendered, offscreen, canvas2D,
          display, button, rafQueue, timers, resizeCount, clickCount,
          preRenders, last, proj, draw>>

appVars == <<is3D, landData, outlineData, map2DRendered, offscreen, canvas2D,
             display, button, rafQueue, timers, resizeCount, clickCount,
             preRenders, last>>

(***************************************************************************)
(* Bounds                                                                  *)
(***************************************************************************)
MaxResize == 2
MaxClicks == 3
MaxRing == 4
MaxFeatures == 2

(***************************************************************************)
(* JavaScript values                                                       *)
(***************************************************************************)
Null == [k |-> "null", v |-> <<>>]
Undef == [k |-> "undef", v |-> <<>>]
NotArray == [k |-> "num", v |-> <<>>]
Arr(s) == [k |-> "arr", v |-> s]
IsArr(j) == j.k = "arr"
Falsy(j) == j.k \in {"null", "undef"}

(***************************************************************************)
(* Exact arithmetic on numbers                                             *)
(***************************************************************************)
Abs(n) == IF n < 0 THEN -n ELSE n

RECURSIVE GCD(_, _)
GCD(a, b) == IF b = 0 THEN a ELSE GCD(b, a % b)

RNorm(n, d) ==
  LET s == IF d < 0 THEN -1 ELSE 1
      g == GCD(Abs(n), Abs(d))
  IN  <<(s * n) \div g, (s * d) \div g>>

R(n) == <<n, 1>>
RAdd(a, b) == RNorm(a[1] * b[2] + b[1] * a[2], a[2] * b[2])
RSub(a, b) == RNorm(a[1] * b[2] - b[1] * a[2], a[2] * b[2])
RMul(a, b) == RNorm(a[1] * b[1], a[2] * b[2])
RDiv(a, b) == RNorm(a[1] * b[2], a[2] * b[1])
RLess(a, b) == a[1] * b[2] < b[1] * a[2]

(***************************************************************************)
(* latLonToXY (index.js 64-69)                                             *)
(***************************************************************************)
latLonToXY_swapped(lat, lon, width, height) ==
  [x |-> RMul(RAdd(lat, R(180)), RDiv(width, R(360))),
   y |-> RMul(RSub(R(90), lon), RDiv(height, R(180)))]

latLonToXY_noflip(lat, lon, width, height) ==
  [x |-> RMul(RAdd(lon, R(180)), RDiv(width, R(360))),
   y |-> RMul(RAdd(R(90), lat), RDiv(height, R(180)))]

latLonToXY(lat, lon, width, height) ==
  [x |-> RMul(RAdd(lon, R(180)), RDiv(width, R(360))),
   y |-> RMul(RSub(R(90), lat), RDiv(height, R(180)))]

(***************************************************************************)
(* Canvas path operations.  A context is modelled by the log of the        *)
(* operations it received; x, y are the operation's numeric arguments.     *)
(***************************************************************************)
Op(name, x, y) == [op |-> name, x |-> x, y |-> y]
Op0(name) == [op |-> name, x |-> R(0), y |-> R(0)]

\* Outcome of a drawing routine: the operations emitted so far and whether
\* it ended by throwing.
Out(ops, threw) == [ops |-> ops, threw |-> threw]

\* A const binding: the value is computed once, then used by Body.
Bind(value, Body(_)) == CHOOSE result \in {Body(x) : x \in {value}} : TRUE

\* The inner ring.forEach / coordinates.forEach body (index.js 153-164,
\* 173-184): skip a missing or short entry, moveTo for the first kept
\* entry, lineTo for the others.
RECURSIVE walkCoords_stopAtBad(_, _, _, _, _, _)
walkCoords_stopAtBad(cs, i, firstPoint, ops, width, height) ==
  IF i > Len(cs) THEN ops
  ELSE LET coord == cs[i] IN
       IF Falsy(coord) \/ Len(coord.v) < 2
       THEN ops
       ELSE LET p == latLonToXY(coord.v[2], coord.v[1],
                                 R(width), R(height)) IN
            walkCoords_stopAtBad(cs, i + 1, FALSE,
                       Append(ops, Op(IF firstPoint THEN "moveTo" ELSE "lineTo",
                                      p.x, p.y)),
                       width, height)

RECURSIVE walkCoords(_, _, _, _, _, _)
walkCoords(cs, i, firstPoint, ops, width, height) ==
  IF i > Len(cs) THEN ops
  ELSE LET coord == cs[i] IN
       IF Falsy(coord) \/ Len(coord.v) < 2
       THEN walkCoords(cs, i + 1, firstPoint, ops, width, height)
       ELSE LET p == latLonToXY(coord.v[2], coord.v[1],
                                 R(width), R(height)) IN
            walkCoords(cs, i + 1, FALSE,
                       Append(ops, Op(IF firstPoint THEN "moveTo" ELSE "lineTo",
                                      p.x, p.y)),
                       width, height)

\* drawPolygonPath (index.js 148-167), entered with the operations already
\* emitted on the context.
RECURSIVE polygonRings(_, _, _, _, _)
polygonRings(rings, i, ops, width, height) ==
  IF i > Len(rings) THEN Out(ops, FALSE)
  ELSE LET ring == rings[i] IN
       IF ~IsArr(ring) THEN Out(ops, TRUE)
       ELSE IF Len(ring.v) < 3
       THEN polygonRings(rings, i + 1, ops, width, height)
       ELSE polygonRings(rings, i + 1,
                         Append(walkCoords(ring.v, 1, TRUE, ops, width, height),
                                Op0("closePath")),
                         width, height)

RECURSIVE polygonRings_noMin(_, _, _, _, _)
polygonRings_noMin(rings, i, ops, width, height) ==
  IF i > Len(rings) THEN Out(ops, FALSE)
  ELSE LET ring == rings[i] IN
       IF ~IsArr(ring) THEN Out(ops, TRUE)
       ELSE polygonRings_noMin(rings, i + 1,
                         Append(walkCoords(ring.v, 1, TRUE, ops, width, height),
                                Op0("closePath")),
                         width, height)

RECURSIVE polygonRings_noClose(_, _, _, _, _)
polygonRings_noClose(rings, i, ops, width, height) ==
  IF i > Len(rings) THEN Out(ops, FALSE)
  ELSE LET ring == rings[i] IN
       IF ~IsArr(ring) THEN Out(ops, TRUE)
       ELSE IF Len(ring.v) < 3
       THEN polygonRings_noClose(rings, i + 1, ops, width, height)
       ELSE polygonRings_noClose(rings, i + 1,
                         walkCoords(ring.v, 1, TRUE, ops, width, height),
                         width, height)

drawPolygonPath_noMin(coordinates, ops, width, height) ==
  IF ~IsArr(coordinates) THEN Out(ops, TRUE)
  ELSE polygonRings_noMin(coordinates.v, 1, ops, width, height)

drawPolygonPath_noClose(coordinates, ops, width, height) ==
  IF ~IsArr(coordinates) THEN Out(ops, TRUE)
  ELSE polygonRings_noClose(coordinates.v, 1, ops, width, height)

drawPolygonPath(coordinates, ops, width, height) ==
  IF ~IsArr(coordinates) THEN Out(ops, TRUE)
  ELSE polygonRings(coordinates.v, 1, ops, width, height)

\* drawLineStringPath (index.js 169-185)
drawLineStringPath(coordinates, ops, width, height) ==
  IF Falsy(coordinates) THEN Out(ops, TRUE)
  ELSE IF ~IsArr(coordinates) THEN Out(ops, TRUE)
  ELSE IF Len(coordinates.v) < 2 THEN Out(ops, FALSE)
  ELSE Out(walkCoords(coordinates.v, 1, TRUE, ops, width, height), FALSE)

\* coordinates.forEach(part => drawPolygonPath / drawLineStringPath(part))
\* (index.js 137, 143): stops at the first part that throws.
RECURSIVE eachPart(_, _, _, _, _, _)
eachPart(parts, i, isPolygon, ops, width, height) ==
  IF i > Len(parts) THEN Out(ops, FALSE)
  ELSE Bind(IF isPolygon
            THEN drawPolygonPath(parts[i], ops, width, height)
            ELSE drawLineStringPath(parts[i], ops, width, height),
            LAMBDA r :
              IF r.threw THEN r
              ELSE eachPart(parts, i + 1, isPolygon, r.ops, width, height))

\* drawGeometryPath (index.js 129-146)
drawGeometryPath(geometry, ops, width, height) ==
  LET type == geometry.type
      coordinates == geometry.coordinates
  IN CASE type = "Polygon" -> drawPolygonPath(coordinates, ops, width, height)
       [] type = "MultiPolygon" ->
            IF ~IsArr(coordinates) THEN Out(ops, TRUE)
            ELSE eachPart(coordinates.v, 1, TRUE, ops, width, height)
       [] type = "LineString" -> drawLineStringPath(coordinates, ops, width, height)
       [] type = "MultiLineString" ->
            IF ~IsArr(coordinates) THEN Out(ops, TRUE)
            ELSE eachPart(coordinates.v, 1, FALSE, ops, width, height)
       [] OTHER -> Out(ops, FALSE)

(***************************************************************************)
(* GeoJSON objects                                                         *)
(***************************************************************************)
Geometry(type, coordinates) ==
  [k |-> "obj", v |-> <<>>, type |-> type, coordinates |-> coordinates]
Feature(geometry) == [k |-> "obj", v |-> <<>>, geometry |-> geometry]
Collection(features) == [k |-> "obj", v |-> <<>>, features |-> features]
Pt(lon, lat) == Arr(<<R(lon), R(lat)>>)

(***************************************************************************)
(* The two draw passes and the offscreen render (index.js 71-127)          *)
(***************************************************************************)
\* features.forEach body of drawLandAreas / drawCountryBorders.  Reading
\* feature.geometry (index.js 97, 117) is outside the try block: a null
\* entry throws out of the forEach.  Inside the try a throw of
\* drawGeometryPath is caught: the operations already emitted stay, the
\* fill or stroke is not reached, and the loop goes on.
RECURSIVE eachFeature(_, _, _, _, _, _)
eachFeature(features, i, paint, ops, width, height) ==
  IF i > Len(features) THEN Out(ops, FALSE)
  ELSE LET feature == features[i] IN
       IF feature.k = "null" THEN Out(ops, TRUE)
       ELSE IF Falsy(feature.geometry)
       THEN eachFeature(features, i + 1, paint, ops, width, height)
       ELSE Bind(drawGeometryPath(feature.geometry,
                                  Append(ops, Op0("beginPath")),
                                  width, height),
                 LAMBDA r :
                   eachFeature(features, i + 1, paint,
                               IF r.threw THEN r.ops
                               ELSE Append(r.ops, Op0(paint)),
                               width, height))

drawPass(data, paint, ops, width, height) ==
  IF Falsy(data.features) THEN Out(ops, FALSE)
  ELSE IF ~IsArr(data.features) THEN Out(ops, TRUE)
  ELSE eachFeature(data.features.v, 1, paint, ops, width, height)

drawLandAreas(land, ops, width, height) ==
  drawPass(land, "fill", ops, width, height)

drawCountryBorders(outline, ops, width, height) ==
  drawPass(outline, "stroke", ops, width, height)

\* Result of render2DMapOffscreen: the buffer's operation log, the flag,
\* whether the call composed the map and whether it threw.
RenderResult(ops, rendered, composed, threw) ==
  [ops |-> ops, rendered |-> rendered, composed |-> composed, threw |-> threw]

render2DMapOffscreen_noFlagGuard(land, outline, rendered, off) ==
  IF Falsy(land) \/ Falsy(outline)
  THEN RenderResult(off.ops, rendered, FALSE, FALSE)
  ELSE Bind(drawLandAreas(land,
                          Append(off.ops,
                                 Op("fillRect", R(off.width), R(off.height))),
                          off.width, off.height),
            LAMBDA l :
              IF l.threw THEN RenderResult(l.ops, rendered, FALSE, TRUE)
              ELSE Bind(drawCountryBorders(outline, l.ops, off.width, off.height),
                        LAMBDA b :
                          IF b.threw THEN RenderResult(b.ops, rendered, FALSE, TRUE)
                          ELSE RenderResult(b.ops, TRUE, TRUE, FALSE)))

render2DMapOffscreen_bordersFirst(land, outline, rendered, off) ==
  IF Falsy(land) \/ Falsy(outline) \/ rendered
  THEN RenderResult(off.ops, rendered, FALSE, FALSE)
  ELSE Bind(drawCountryBorders(outline,
                               Append(off.ops,
                                      Op("fillRect", R(off.width), R(off.height))),
                               off.width, off.height),
            LAMBDA b :
              IF b.threw THEN RenderResult(b.ops, rendered, FALSE, TRUE)
              ELSE Bind(drawLandAreas(land, b.ops, off.width, off.height),
                        LAMBDA l :
                          IF l.threw THEN RenderResult(l.ops, rendered, FALSE, TRUE)
                          ELSE RenderResult(l.ops, TRUE, TRUE, FALSE)))

render2DMapOffscreen(land, outline, rendered, off) ==
  IF Falsy(land) \/ Falsy(outline) \/ rendered
  THEN RenderResult(off.ops, rendered, FALSE, FALSE)
  ELSE Bind(drawLandAreas(land,
                          Append(off.ops,
                                 Op("fillRect", R(off.width), R(off.height))),
                          off.width, off.height),
            LAMBDA l :
              IF l.threw THEN RenderResult(l.ops, rendered, FALSE, TRUE)
              ELSE Bind(drawCountryBorders(outline, l.ops, off.width, off.height),
                        LAMBDA b :
                          IF b.threw THEN RenderResult(b.ops, rendered, FALSE, TRUE)
                          ELSE RenderResult(b.ops, TRUE, TRUE, FALSE)))

\* The map as composed from both datasets on a cleared buffer.
ComposedMap(land, outline, width, height) ==
  render2DMapOffscreen(land, outline, FALSE,
                       [width |-> width, height |-> height, ops |-> <<>>]).ops

(***************************************************************************)
(* Canvases                                                                *)
(***************************************************************************)
\* A canvas whose width or height was just assigned is cleared.
Canvas(width, height) ==
  [width |-> width, height |-> height, kind |-> "blank", img |-> <<>>]
Buffer(width, height) == [width |-> width, height |-> height, ops |-> <<>>]

\* drawImage throws InvalidStateError when the source canvas has a zero
\* width or height.
drawImageThrows(off) == off.width = 0 \/ off.height = 0

\* display2DMap (index.js 187-192): clearRect, then drawImage of the buffer.
display2DMap(canvas, off) ==
  IF drawImageThrows(off)
  THEN [canvas EXCEPT !.kind = "blank", !.img = <<>>]
  ELSE [canvas EXCEPT !.kind = "blit", !.img = off.ops]

\* cleanupCanvas2D (index.js 257-262)
cleanupCanvas2D(canvas) == [canvas EXCEPT !.kind = "blank", !.img = <<>>]

\* The loading placeholder drawn by the toggle (index.js 296-301)
Placeholder(canvas) == [canvas EXCEPT !.kind = "placeholder", !.img = <<>>]

(***************************************************************************)
(* Inputs of the application                                               *)
(***************************************************************************)
\* window.innerWidth x window.innerHeight
WindowSizes == {<<360, 180>>, <<720, 360>>}

Triangle == Feature(Geometry("Polygon",
              Arr(<<Arr(<<Pt(0, 0), Pt(10, 0), Pt(10, 10)>>)>>)))
Island == Feature(Geometry("MultiPolygon",
              Arr(<<Arr(<<Arr(<<Pt(-180, 90), Pt(180, 90), Pt(0, -90)>>)>>)>>)))
Coast == Feature(Geometry("LineString", Arr(<<Pt(-10, 20), Pt(30, -40)>>)))

\* Contents of ne_110m_land.json and of countries.json
LandFiles == {Collection(Arr(<<Triangle>>)), Collection(Arr(<<Island, Triangle>>))}
OutlineFiles == {Collection(Arr(<<Triangle, Coast>>))}

Timer(cb, by) == [cb |-> cb, by |-> by]
Event(ev, r) == [ev |-> ev, by |-> "", r |-> r]
TimerEvent(t, r) == [ev |-> t.cb, by |-> t.by, r |-> r]

Idle == [pc |-> "idle"]

(***************************************************************************)
(* Initial state (index.js 6-45, 323-347)                                  *)
(***************************************************************************)
AppInit(w, h) ==
  /\ is3D = TRUE
  /\ landData = Null
  /\ outlineData = Null
  /\ map2DRendered = FALSE
  /\ offscreen = Buffer(w, h)
  /\ canvas2D = Canvas(w, h)
  /\ display = [canvas2D |-> "none", renderer |-> ""]
  /\ button = [disabled |-> FALSE, text |-> "Switch to 2D Map"]
  /\ rafQueue = 0
  /\ timers = <<>>
  /\ resizeCount = 0
  /\ clickCount = 0
  /\ preRenders = 0
  /\ last = Event("init", "")

Init ==
  /\ \E s \in WindowSizes : AppInit(s[1], s[2])
  /\ proj = Idle
  /\ draw = Idle

(***************************************************************************)
(* Dataset load handlers (index.js 196-242)                                *)
(***************************************************************************)
LoadLand_always(data) ==
  /\ Falsy(landData)
  /\ landData' = data
  /\ timers' = Append(timers, Timer("render", "land"))
  /\ preRenders' = preRenders + 1
  /\ last' = Event("loadLand", "")
  /\ UNCHANGED <<is3D, outlineData, map2DRendered, offscreen, canvas2D, display,
                 button, rafQueue, resizeCount, clickCount, proj, draw>>

LoadLand(data) ==
  /\ Falsy(landData)
  /\ landData' = data
  /\ IF ~Falsy(outlineData)
     THEN /\ timers' = Append(timers, Timer("render", "land"))
          /\ preRenders' = preRenders + 1
     ELSE UNCHANGED <<timers, preRenders>>
  /\ last' = Event("loadLand", "")
  /\ UNCHANGED <<is3D, outlineData, map2DRendered, offscreen, canvas2D, display,
                 button, rafQueue, resizeCount, clickCount, proj, draw>>

LoadOutline(data) ==
  /\ Falsy(outlineData)
  /\ outlineData' = data
  /\ IF ~Falsy(landData)
     THEN /\ timers' = Append(timers, Timer("render", "outline"))
          /\ preRenders' = preRenders + 1
     ELSE UNCHANGED <<timers, preRenders>>
  /\ last' = Event("loadOutline", "")
  /\ UNCHANGED <<is3D, landData, map2DRendered, offscreen, canvas2D, display,
                 button, rafQueue, resizeCount, clickCount, proj, draw>>

(***************************************************************************)
(* Deferred callbacks (index.js 214, 240, 303-306, 369-372).  Timers of    *)
(* equal delay run in the order they were set.                             *)
(***************************************************************************)
RunTimer_displayFirst(t) ==
  LET r == render2DMapOffscreen(landData, outlineData, map2DRendered, offscreen)
  IN /\ offscreen' = [offscreen EXCEPT !.ops = r.ops]
     /\ map2DRendered' = r.rendered
     /\ canvas2D' = IF t.cb = "renderDisplay"
                    THEN display2DMap(canvas2D, offscreen)
                    ELSE canvas2D
     /\ last' = TimerEvent(t, IF r.composed THEN "composed" ELSE "noop")

RunTimer(t) ==
  LET r == render2DMapOffscreen(landData, outlineData, map2DRendered, offscreen)
  IN /\ offscreen' = [offscreen EXCEPT !.ops = r.ops]
     /\ map2DRendered' = r.rendered
     /\ canvas2D' = IF t.cb = "renderDisplay" /\ ~r.threw
                    THEN display2DMap(canvas2D, offscreen')
                    ELSE canvas2D
     /\ last' = TimerEvent(t, CASE r.threw -> "threw"
                                   [] r.composed -> "composed"
                                   [] map2DRendered -> "cached"
                                   [] OTHER -> "nodata")

FireTimer_showsCanvas ==
  /\ timers # <<>>
  /\ RunTimer(Head(timers))
  /\ timers' = Tail(timers)
  /\ display' = IF Head(timers).cb = "renderDisplay"
                THEN [canvas2D |-> "block", renderer |-> "none"]
                ELSE display
  /\ UNCHANGED <<is3D, landData, outlineData, button, rafQueue,
                 resizeCount, clickCount, preRenders, proj, draw>>

FireTimer ==
  /\ timers # <<>>
  /\ RunTimer(Head(timers))
  /\ timers' = Tail(timers)
  /\ UNCHANGED <<is3D, landData, outlineData, display, button, rafQueue,
                 resizeCount, clickCount, preRenders, proj, draw>>

(***************************************************************************)
(* Toggle (index.js 264-320)                                               *)
(***************************************************************************)
\* The click listener: toggle2D3D up to requestAnimationFrame.
Click_noGuard ==
  /\ clickCount < MaxClicks
  /\ clickCount' = clickCount + 1
  /\ button' = [disabled |-> TRUE, text |-> "Switching..."]
  /\ rafQueue' = rafQueue + 1
  /\ last' = Event("click", "accepted")
  /\ UNCHANGED <<is3D, landData, outlineData, map2DRendered, offscreen,
                 canvas2D, display, timers, resizeCount, preRenders, proj, draw>>

Click ==
  /\ clickCount < MaxClicks
  /\ clickCount' = clickCount + 1
  /\ IF button.disabled
     THEN /\ UNCHANGED <<button, rafQueue>>
          /\ last' = Event("click", "ignored")
     ELSE /\ button' = [disabled |-> TRUE, text |-> "Switching..."]
          /\ rafQueue' = rafQueue + 1
          /\ last' = Event("click", "accepted")
  /\ UNCHANGED <<is3D, landData, outlineData, map2DRendered, offscreen,
                 canvas2D, display, timers, resizeCount, preRenders, proj, draw>>

\* Switching to 2D (index.js 286-307)
To2D_alwaysDefer ==
  /\ canvas2D' = Placeholder(canvas2D)
  /\ timers' = Append(timers, Timer("renderDisplay", "toggle"))
  /\ last' = Event("toggle2D", "placeholder")

To2D ==
  IF map2DRendered
  THEN /\ canvas2D' = display2DMap(canvas2D, offscreen)
       /\ timers' = timers
       /\ last' = Event("toggle2D", IF drawImageThrows(offscreen)
                                    THEN "failed" ELSE "blit")
  ELSE /\ canvas2D' = Placeholder(canvas2D)
       /\ timers' = Append(timers, Timer("renderDisplay", "toggle"))
       /\ last' = Event("toggle2D", "placeholder")

\* The callback throws, and its catch block (index.js 314-318) runs, when
\* display2DMap is called on a buffer that drawImage rejects.
ToggleThrows == is3D /\ map2DRendered /\ drawImageThrows(offscreen)

\* The requestAnimationFrame callback (index.js 274-319)
ToggleFrame_noCatch ==
  /\ rafQueue > 0
  /\ rafQueue' = rafQueue - 1
  /\ is3D' = ~is3D
  /\ IF is3D'
     THEN /\ canvas2D' = cleanupCanvas2D(canvas2D)
          /\ display' = [canvas2D |-> "none", renderer |-> "block"]
          /\ timers' = timers
          /\ last' = Event("toggle3D", "")
     ELSE /\ display' = [canvas2D |-> "block", renderer |-> "none"]
          /\ To2D
  /\ button' = CASE ToggleThrows -> button
                 [] ~ToggleThrows /\ is3D' ->
                      [disabled |-> FALSE, text |-> "Switch to 2D Map"]
                 [] OTHER -> [disabled |-> FALSE, text |-> "Switch to 3D Globe"]
  /\ UNCHANGED <<landData, outlineData, map2DRendered, offscreen, resizeCount,
                 clickCount, preRenders, proj, draw>>

ToggleFrame_staleLabel ==
  /\ rafQueue > 0
  /\ rafQueue' = rafQueue - 1
  /\ is3D' = ~is3D
  /\ IF is3D'
     THEN /\ canvas2D' = cleanupCanvas2D(canvas2D)
          /\ display' = [canvas2D |-> "none", renderer |-> "block"]
          /\ timers' = timers
          /\ last' = Event("toggle3D", "")
     ELSE /\ display' = [canvas2D |-> "block", renderer |-> "none"]
          /\ To2D
  /\ button' = [disabled |-> FALSE,
                text |-> CASE ToggleThrows -> "Toggle Failed - Try Again"
                           [] ~ToggleThrows /\ is3D -> "Switch to 2D Map"
                           [] OTHER -> "Switch to 3D Globe"]
  /\ UNCHANGED <<landData, outlineData, map2DRendered, offscreen, resizeCount,
                 clickCount, preRenders, proj, draw>>

ToggleFrame ==
  /\ rafQueue > 0
  /\ rafQueue' = rafQueue - 1
  /\ is3D' = ~is3D
  /\ IF is3D'
     THEN /\ canvas2D' = cleanupCanvas2D(canvas2D)
          /\ display' = [canvas2D |-> "none", renderer |-> "block"]
          /\ timers' = timers
          /\ last' = Event("toggle3D", "")
     ELSE /\ display' = [canvas2D |-> "block", renderer |-> "none"]
          /\ To2D
  /\ button' = [disabled |-> FALSE,
                text |-> CASE ToggleThrows -> "Toggle Failed - Try Again"
                           [] ~ToggleThrows /\ is3D' -> "Switch to 2D Map"
                           [] OTHER -> "Switch to 3D Globe"]
  /\ UNCHANGED <<landData, outlineData, map2DRendered, offscreen, resizeCount,
                 clickCount, preRenders, proj, draw>>

(***************************************************************************)
(* handleWindowResize (index.js 349-374)                                   *)
(***************************************************************************)
handleWindowResize_keepFlag(newWidth, newHeight) ==
  /\ resizeCount < MaxResize
  /\ resizeCount' = resizeCount + 1
  /\ canvas2D' = Canvas(newWidth, newHeight)
  /\ offscreen' = Buffer(newWidth, newHeight)
  /\ map2DRendered' = map2DRendered
  /\ IF ~is3D /\ ~Falsy(landData) /\ ~Falsy(outlineData)
     THEN timers' = Append(timers, Timer("renderDisplay", "resize"))
     ELSE timers' = timers
  /\ last' = Event("resize", "")
  /\ UNCHANGED <<is3D, landData, outlineData, display, button, rafQueue,
                 clickCount, preRenders, proj, draw>>

handleWindowResize(newWidth, newHeight) ==
  /\ resizeCount < MaxResize
  /\ resizeCount' = resizeCount + 1
  /\ canvas2D' = Canvas(newWidth, newHeight)
  /\ offscreen' = Buffer(newWidth, newHeight)
  /\ map2DRendered' = FALSE
  /\ IF ~is3D /\ ~Falsy(landData) /\ ~Falsy(outlineData)
     THEN timers' = Append(timers, Timer("renderDisplay", "resize"))
     ELSE timers' = timers
  /\ last' = Event("resize", "")
  /\ UNCHANGED <<is3D, landData, outlineData, display, button, rafQueue,
                 clickCount, preRenders, proj, draw>>

LoadLandStep == \E data \in LandFiles : LoadLand(data)
LoadOutlineStep == \E data \in OutlineFiles : LoadOutline(data)
ResizeStep == \E s \in WindowSizes : handleWindowResize(s[1], s[2])

Next ==
  \/ LoadLandStep
  \/ LoadOutlineStep
  \/ FireTimer
  \/ Click
  \/ ToggleFrame
  \/ ResizeStep

Spec == Init /\ [][Next]_vars

\* The same program in a window that may have no width (a hidden frame).
AnyWindowSizes == WindowSizes \cup {<<0, 180>>}

AnySizeInit ==
  /\ \E s \in AnyWindowSizes : AppInit(s[1], s[2])
  /\ proj = Idle
  /\ draw = Idle

AnySizeResizeStep == \E s \in AnyWindowSizes : handleWindowResize(s[1], s[2])

AnySizeNext ==
  \/ LoadLandStep
  \/ LoadOutlineStep
  \/ FireTimer
  \/ Click
  \/ ToggleFrame
  \/ AnySizeResizeStep

AnySizeSpec == AnySizeInit /\ [][AnySizeNext]_vars

\* Timers that were set do fire.  A step that removes the head of the timer
\* queue is a FireTimer step, and FireTimer is enabled exactly when the queue
\* is not empty.
TimerFires == timers # <<>> /\ timers' = Tail(timers)
LiveSpec == Spec /\ WF_timers(TimerFires)

(***************************************************************************)
(* Properties of the cache and the toggle                                  *)
(***************************************************************************)
BothLoaded == ~Falsy(landData) /\ ~Falsy(outlineData)

\* A step that runs a deferred callback, hence render2DMapOffscreen.
TimerStep == Len(timers') < Len(timers)
ResizeHappens == resizeCount' # resizeCount

\* The image is the map composed from both datasets at the buffer's size.
IsFreshMap(img) ==
  /\ BothLoaded
  /\ img # <<>>
  /\ img = ComposedMap(landData, outlineData, offscreen.width, offscreen.height)

\* C1: once the map is composed, a further call of render2DMapOffscreen
\* draws nothing on the offscreen buffer and changes no state; the buffer is
\* drawn on only by a call that finds the flag false and sets it, and the
\* flag falls back to false only on a resize, so the map is composed at most
\* once between two invalidations.
C1_RenderIsNoOpWhileCached ==
  [][/\ (TimerStep /\ map2DRendered) =>
           /\ offscreen' = offscreen
           /\ map2DRendered'
           /\ UNCHANGED <<is3D, landData, outlineData>>
     /\ (TimerStep /\ offscreen' # offscreen) =>
           (~map2DRendered /\ map2DRendered')
     /\ (map2DRendered /\ ~map2DRendered') => ResizeHappens]_vars

C1_Witness == last.r = "cached" /\ map2DRendered /\ offscreen.ops # <<>>

\* C2: every resize sets map2DRendered to false, and whatever is blitted to
\* the visible canvas after a resize is the map freshly composed at the new
\* dimensions (a resize clears the visible canvas, so an image found on it
\* was blitted after the last resize).
C2_DisplayAfterResizeIsFresh ==
  /\ [][ResizeHappens => ~map2DRendered']_vars
  /\ []((resizeCount > 0 /\ canvas2D.kind = "blit") => IsFreshMap(canvas2D.img))

\* The state in which the second dataset has just been stored.
SecondLoadDone == BothLoaded /\ last.ev \in {"loadLand", "loadOutline"}

\* C3: the load handlers schedule the pre-render exactly once, the handler
\* of the dataset that arrives last does it, none does while the other
\* dataset is missing, and unless a resize intervenes the flag becomes true
\* once both datasets are loaded.
C3_PreRenderOnceByLastLoad ==
  /\ [](preRenders = IF BothLoaded THEN 1 ELSE 0)
  /\ [][/\ (Falsy(landData) /\ ~Falsy(landData')) =>
             timers' = IF Falsy(outlineData) THEN timers
                       ELSE Append(timers, Timer("render", "land"))
        /\ (Falsy(outlineData) /\ ~Falsy(outlineData')) =>
             timers' = IF Falsy(landData) THEN timers
                       ELSE Append(timers, Timer("render", "outline"))]_vars
  /\ \A e \in 0..MaxResize :
        (SecondLoadDone /\ resizeCount = e) ~> (map2DRendered \/ resizeCount # e)

C3_Witness ==
  /\ last = [ev |-> "render", by |-> "land", r |-> "composed"]
  /\ map2DRendered /\ preRenders = 1 /\ resizeCount = 0

LatInputs == {R(-100), R(-90), R(0), <<1, 2>>, R(45), R(90), R(100)}
LonInputs == {R(-200), R(-180), <<-1, 2>>, R(0), R(10), R(180), R(190)}
ProjSizes == {<<360, 180>>, <<100, 50>>, <<1, 1>>, <<7, 3>>}

Origin == [x |-> R(0), y |-> R(0)]

ProjInit ==
  /\ AppInit(360, 180)
  /\ draw = Idle
  /\ \E lat1 \in LatInputs, lon1 \in LonInputs, lat2 \in LatInputs,
        lon2 \in LonInputs, s \in ProjSizes :
       proj = [pc |-> "in", lat1 |-> lat1, lon1 |-> lon1, lat2 |-> lat2,
               lon2 |-> lon2, width |-> R(s[1]), height |-> R(s[2]),
               p1 |-> Origin, p2 |-> Origin]

Project ==
  /\ proj.pc = "in"
  /\ proj' = [proj EXCEPT
       !.pc = "out",
       !.p1 = latLonToXY(proj.lat1, proj.lon1, proj.width, proj.height),
       !.p2 = latLonToXY(proj.lat2, proj.lon2, proj.width, proj.height)]
  /\ UNCHANGED <<appVars, draw>>

ProjNext == Project

ProjSpec == ProjInit /\ [][ProjNext]_vars

RLeq(a, b) == ~RLess(b, a)
InRange(lat, lon) ==
  /\ RLeq(R(-90), lat) /\ RLeq(lat, R(90))
  /\ RLeq(R(-180), lon) /\ RLeq(lon, R(180))

\* C8: for positive width and height and inputs in range, x grows strictly
\* with the longitude and y falls strictly as the latitude grows; x is the
\* same for equal longitudes whatever the latitudes, y the same for equal
\* latitudes whatever the longitudes.
C8_ProjectionMonotonic ==
  (/\ proj.pc = "out"
   /\ InRange(proj.lat1, proj.lon1)
   /\ InRange(proj.lat2, proj.lon2)) =>
     /\ RLess(proj.lon1, proj.lon2) => RLess(proj.p1.x, proj.p2.x)
     /\ RLess(proj.lat1, proj.lat2) => RLess(proj.p2.y, proj.p1.y)
     /\ proj.lon1 = proj.lon2 => proj.p1.x = proj.p2.x
     /\ proj.lat1 = proj.lat2 => proj.p1.y = proj.p2.y

C8_Witness ==
  /\ proj.pc = "out"
  /\ InRange(proj.lat1, proj.lon1) /\ InRange(proj.lat2, proj.lon2)
  /\ RLess(proj.lon1, proj.lon2) /\ RLess(proj.lat1, proj.lat2)
  /\ RLess(proj.p1.x, proj.p2.x) /\ RLess(proj.p2.y, proj.p1.y)
  /\ proj.width = R(7)

\* C9: x = (lon + 180) * width / 360 and y = (90 - lat) * height / 180 for
\* every input, in range or not; on a 360x180 canvas (0, 0) maps to
\* (180, 90), (90, -180) to (0, 0) and (-90, 180) to (360, 180).
C9_ProjectionFormula ==
  proj.pc = "out" =>
    /\ proj.p1.x = RDiv(RMul(RAdd(proj.lon1, R(180)), proj.width), R(360))
    /\ proj.p1.y = RDiv(RMul(RSub(R(90), proj.lat1), proj.height), R(180))
    /\ (proj.width = R(360) /\ proj.height = R(180)) =>
         /\ (proj.lat1 = R(0) /\ proj.lon1 = R(0)) =>
              proj.p1 = [x |-> R(180), y |-> R(90)]
         /\ (proj.lat1 = R(90) /\ proj.lon1 = R(-180)) =>
              proj.p1 = [x |-> R(0), y |-> R(0)]
         /\ (proj.lat1 = R(-90) /\ proj.lon1 = R(180)) =>
              proj.p1 = [x |-> R(360), y |-> R(180)]
         /\ (proj.lat1 = R(100) /\ proj.lon1 = R(190)) =>
              proj.p1 = [x |-> R(370), y |-> R(-10)]

C9_Witness ==
  /\ proj.pc = "out"
  /\ proj.width = R(360) /\ proj.height = R(180)
  /\ proj.lat1 = R(100) /\ proj.lon1 = R(-200)
  /\ proj.p1 = [x |-> R(-20), y |-> R(-10)]

(***************************************************************************)
(* The path builder applied to bounded inputs                              *)
(***************************************************************************)
\* All sequences over S of length at most n
RECURSIVE SeqsUpTo(_, _)
SeqsUpTo(S, n) ==
  IF n = 0 THEN {<<>>}
  ELSE LET shorter == SeqsUpTo(S, n - 1)
       IN shorter \cup {Append(q, e) : q \in shorter, e \in S}

\* Entries of a ring or line: missing, one component, or a point
CoordInputs == {Null, Arr(<<R(5)>>), Pt(0, 0), Pt(10, 0), Pt(10, 10)}
RingInputs == SeqsUpTo(CoordInputs, MaxRing)

TriangleRing == Arr(<<Pt(0, 0), Pt(10, 0), Pt(10, 10)>>)
CoastLine == Arr(<<Pt(-10, 20), Pt(30, -40)>>)

\* The geometries built around one ring or line; rest is the fixed
\* well-formed part drawn after it.
Shapes == {"Polygon", "PolygonThenTriangle", "MultiPolygon", "LineString",
           "MultiLineStringThenCoast"}
IsPolygonShape(shape) == shape \in {"Polygon", "PolygonThenTriangle", "MultiPolygon"}

ShapeGeometry(shape, ring) ==
  CASE shape = "Polygon" -> Geometry("Polygon", Arr(<<Arr(ring)>>))
    [] shape = "PolygonThenTriangle" ->
         Geometry("Polygon", Arr(<<Arr(ring), TriangleRing>>))
    [] shape = "MultiPolygon" -> Geometry("MultiPolygon", Arr(<<Arr(<<Arr(ring)>>)>>))
    [] shape = "LineString" -> Geometry("LineString", Arr(ring))
    [] shape = "MultiLineStringThenCoast" ->
         Geometry("MultiLineString", Arr(<<Arr(ring), CoastLine>>))

\* Feature lists with entries that fail
LandFeatureInputs ==
  {Null,
   Feature(Undef),
   Feature(Geometry("Polygon", Undef)),
   Feature(Geometry("MultiPolygon", NotArray)),
   Feature(Geometry("Polygon", Arr(<<TriangleRing, Null>>))),
   Triangle, Island}
OutlineFeatureInputs ==
  {Null, Feature(Geometry("LineString", Undef)), Coast}

DrawInit ==
  /\ proj = Idle
  /\ \E s \in WindowSizes :
       \/ /\ AppInit(s[1], s[2])
          /\ \E shape \in Shapes, ring \in RingInputs :
               draw = [pc |-> "in", shape |-> shape, ring |-> ring,
                       width |-> s[1], height |-> s[2],
                       out |-> Out(<<>>, FALSE)]
       \/ /\ draw = Idle
          /\ is3D = TRUE
          /\ \E fs \in SeqsUpTo(LandFeatureInputs, MaxFeatures) :
               landData = Collection(Arr(fs))
          /\ \E fs \in SeqsUpTo(OutlineFeatureInputs, MaxFeatures) :
               outlineData = Collection(Arr(fs))
          /\ map2DRendered = FALSE
          /\ offscreen = Buffer(s[1], s[2])
          /\ canvas2D = Canvas(s[1], s[2])
          /\ display = [canvas2D |-> "none", renderer |-> ""]
          /\ button = [disabled |-> FALSE, text |-> "Switch to 2D Map"]
          /\ rafQueue = 0
          /\ timers = <<Timer("render", "outline")>>
          /\ resizeCount = 0
          /\ clickCount = 0
          /\ preRenders = 1
          /\ last = Event("loadOutline", "")

\* beginPath, then drawGeometryPath of the geometry on the offscreen context
DrawGeometry ==
  /\ draw.pc = "in"
  /\ draw' = [draw EXCEPT
       !.pc = "out",
       !.out = drawGeometryPath(ShapeGeometry(draw.shape, draw.ring), <<>>,
                                draw.width, draw.height)]
  /\ UNCHANGED <<appVars, proj>>

DrawNext ==
  \/ DrawGeometry
  \/ FireTimer

DrawSpec == DrawInit /\ [][DrawNext]_vars

(***************************************************************************)
(* Properties of the path builder                                          *)
(***************************************************************************)
IsPoint(coord) == IsArr(coord) /\ Len(coord.v) >= 2
WellFormedEntries(ring) == SelectSeq(ring, IsPoint)

\* The pixel of a point, by the projection formula
PixelX(coord, width) == RDiv(RMul(RAdd(coord.v[1], R(180)), R(width)), R(360))
PixelY(coord, height) == RDiv(RMul(RSub(R(90), coord.v[2]), R(height)), R(180))

\* One sub-path through the given points
ExpectedPath(points, closed, width, height) ==
  [i \in 1..Len(points) |->
     Op(IF i = 1 THEN "moveTo" ELSE "lineTo",
        PixelX(points[i], width), PixelY(points[i], height))]
  \o (IF closed THEN <<Op0("closePath")>> ELSE <<>>)

\* What the fixed part of a shape adds after the ring or line under test
RestOps(shape, width, height) ==
  CASE shape = "PolygonThenTriangle" ->
         ExpectedPath(TriangleRing.v, TRUE, width, height)
    [] shape = "MultiLineStringThenCoast" ->
         ExpectedPath(CoastLine.v, FALSE, width, height)
    [] OTHER -> <<>>

MinLength(shape) == IF IsPolygonShape(shape) THEN 3 ELSE 2
DrawDone == draw.pc = "out"

\* C5: a ring of fewer than 3 entries and a line of fewer than 2 entries
\* emit no path operation, in every geometry kind; the rest of the geometry
\* is drawn as if the short ring or line were absent.
C5_ShortRingsAndLinesNotDrawn ==
  (DrawDone /\ Len(draw.ring) < MinLength(draw.shape)) =>
     /\ draw.out.ops = RestOps(draw.shape, draw.width, draw.height)
     /\ ~draw.out.threw

C5_Witness ==
  /\ DrawDone
  /\ draw.shape = "PolygonThenTriangle"
  /\ draw.ring = <<Pt(0, 0), Pt(10, 0)>>
  /\ Len(draw.out.ops) = 4

\* C6 as stated: the operations emitted for a ring or line are exactly
\* those emitted for it with its malformed entries removed.
C6_SameAsFiltered ==
  DrawDone =>
    draw.out.ops =
      drawGeometryPath(ShapeGeometry(draw.shape, WellFormedEntries(draw.ring)),
                       <<>>, draw.width, draw.height).ops

\* C6 amended: the length threshold is tested on the raw number of entries.
\* A ring of at least 3 entries (a line of at least 2) emits one moveTo for
\* its first well-formed entry and one lineTo for each later well-formed
\* entry, in order, then closePath for a ring; that is what the filtered
\* ring or line emits whenever it still has 3 (2) entries.
C6_MalformedEntriesSkipped ==
  DrawDone =>
    LET wf == WellFormedEntries(draw.ring)
        rest == RestOps(draw.shape, draw.width, draw.height)
    IN /\ Len(draw.ring) >= MinLength(draw.shape) =>
            draw.out.ops =
              ExpectedPath(wf, IsPolygonShape(draw.shape), draw.width, draw.height)
              \o rest
       /\ Len(wf) >= MinLength(draw.shape) =>
            draw.out.ops =
              drawGeometryPath(ShapeGeometry(draw.shape, wf), <<>>,
                               draw.width, draw.height).ops

C6_Witness ==
  /\ DrawDone
  /\ draw.shape = "LineString"
  /\ draw.ring = <<Null, Pt(0, 0), Arr(<<R(5)>>), Pt(10, 10)>>
  /\ Len(draw.out.ops) = 2
  /\ draw.out.ops[1].op = "moveTo" /\ draw.out.ops[2].op = "lineTo"

\* C7: a polygon ring with at least 3 points is one closed sub-path: one
\* moveTo to the pixel of its first point, one lineTo per following point in
\* ring order, then one closePath; the Polygon [[0,0],[10,0],[10,10]] gives
\* moveTo, lineTo, lineTo, closePath and nothing else.
C7_RingIsOneClosedPath ==
  (DrawDone /\ IsPolygonShape(draw.shape)
     /\ Len(WellFormedEntries(draw.ring)) >= 3) =>
    LET wf == WellFormedEntries(draw.ring)
        n == Len(wf)
        rest == RestOps(draw.shape, draw.width, draw.height)
        ops == draw.out.ops
    IN /\ Len(ops) = n + 1 + Len(rest)
       /\ ops[1] = Op("moveTo", PixelX(wf[1], draw.width), PixelY(wf[1], draw.height))
       /\ \A i \in 2..n :
            ops[i] = Op("lineTo", PixelX(wf[i], draw.width), PixelY(wf[i], draw.height))
       /\ ops[n + 1] = Op0("closePath")
       /\ SubSeq(ops, n + 2, Len(ops)) = rest
       /\ (/\ draw.shape = "Polygon" /\ draw.width = 360 /\ draw.height = 180
           /\ draw.ring = <<Pt(0, 0), Pt(10, 0), Pt(10, 10)>>) =>
            ops = <<Op("moveTo", R(180), R(90)), Op("lineTo", R(190), R(90)),
                    Op("lineTo", R(190), R(80)), Op0("closePath")>>

C7_Witness ==
  /\ DrawDone
  /\ draw.shape = "Polygon" /\ draw.width = 360 /\ draw.height = 180
  /\ draw.ring = <<Pt(0, 0), Pt(10, 0), Pt(10, 10)>>
  /\ draw.out.ops = <<Op("moveTo", R(180), R(90)), Op("lineTo", R(190), R(90)),
                      Op("lineTo", R(190), R(80)), Op0("closePath")>>

(***************************************************************************)
(* Properties of the draw passes                                           *)
(***************************************************************************)
AllArrays(parts) == \A i \in 1..Len(parts) : IsArr(parts[i])

\* A feature whose geometry the path builder can walk
WellFormedFeature(feature) ==
  /\ feature.k = "obj"
  /\ feature.geometry.k = "obj"
  /\ IsArr(feature.geometry.coordinates)
  /\ LET type == feature.geometry.type
         parts == feature.geometry.coordinates.v
     IN CASE type = "Polygon" -> AllArrays(parts)
          [] type = "MultiPolygon" ->
               /\ AllArrays(parts)
               /\ \A i \in 1..Len(parts) : AllArrays(parts[i].v)
          [] type = "MultiLineString" -> AllArrays(parts)
          [] OTHER -> TRUE

\* The operations that draw one feature
FeatureBlock(feature, paint, width, height) ==
  drawGeometryPath(feature.geometry, <<Op0("beginPath")>>, width, height).ops
  \o <<Op0(paint)>>

Contains(ops, block) ==
  \E k \in 0..(Len(ops) - Len(block)) :
     SubSeq(ops, k + 1, k + Len(block)) = block

AllWellFormedDrawn(data, paint) ==
  \A i \in 1..Len(data.features.v) :
     WellFormedFeature(data.features.v[i]) =>
       Contains(offscreen.ops,
                FeatureBlock(data.features.v[i], paint,
                             offscreen.width, offscreen.height))

\* The pre-render callback has run on both datasets.
PreRenderRan == BothLoaded /\ last.ev = "render" /\ resizeCount = 0

\* C4: whatever entries of the two feature lists fail, the render completes
\* and sets map2DRendered, and every well-formed feature of both lists is
\* drawn: filled for the land, stroked for the borders.
C4_FailingFeaturesDoNotAbort ==
  PreRenderRan =>
    /\ map2DRendered
    /\ AllWellFormedDrawn(landData, "fill")
    /\ AllWellFormedDrawn(outlineData, "stroke")


(***************************************************************************)
(* The toggle: serialisation, frame, error handling                        *)
(***************************************************************************)
ClickStep == clickCount' # clickCount
FrameStep == rafQueue' < rafQueue

\* Everything the page holds: all variables but the observer's counters.
pageState == <<is3D, landData, outlineData, map2DRendered, offscreen,
               canvas2D, display, button, rafQueue, timers>>

\* C11: at most one toggle callback is pending at any time; a click that
\* arrives while the button is disabled changes nothing on the page and
\* schedules nothing; a click that arrives while it is enabled schedules one
\* callback, and is3D is flipped by exactly the steps that run one callback,
\* so each accepted click flips is3D exactly once.
C11_ToggleSerialized ==
  /\ [](rafQueue <= 1)
  /\ [][/\ (ClickStep /\ button.disabled) => UNCHANGED pageState
        /\ (ClickStep /\ ~button.disabled) =>
             /\ rafQueue' = rafQueue + 1
             /\ UNCHANGED <<is3D, timers>>
        /\ (rafQueue' > rafQueue) => (ClickStep /\ ~button.disabled)
        /\ FrameStep <=> (is3D' # is3D)
        /\ FrameStep => (rafQueue' = rafQueue - 1 /\ is3D' = ~is3D)]_vars

\* A click arrived while a toggle callback was pending.
C11_Witness ==
  /\ last = Event("click", "ignored")
  /\ rafQueue = 1
  /\ button.disabled


\* C12: is3D and the display styles of the two canvases change only in a
\* step that runs the toggle callback; a dataset load, a resize, a click and
\* every deferred callback leave them unchanged, also a render-then-display
\* callback that fires while the page is back in 3D.
C12_OnlyToggleChangesMode ==
  [][/\ (is3D' # is3D \/ display' # display) => FrameStep
     /\ (TimerStep \/ ResizeHappens \/ ClickStep
           \/ landData' # landData \/ outlineData' # outlineData)
          => UNCHANGED <<is3D, display>>]_vars

\* The toggle's deferred callback fired after the page went back to 3D.
C12_Witness ==
  /\ last.ev = "renderDisplay"
  /\ last.by = "toggle"
  /\ is3D
  /\ display = [canvas2D |-> "none", renderer |-> "block"]


FailedLabel == [disabled |-> FALSE, text |-> "Toggle Failed - Try Again"]

\* C13: a toggle callback that throws ends in its own catch block, which
\* leaves the button enabled with the text 'Toggle Failed - Try Again'; after
\* every toggle callback, failed or not, the button is enabled and the next
\* click is accepted; the button is disabled exactly while a toggle callback
\* is pending.
C13_ToggleErrorCaught ==
  /\ [](button.disabled <=> rafQueue > 0)
  /\ [][/\ FrameStep => ~button'.disabled
        /\ (FrameStep /\ last'.r = "failed") => button' = FailedLabel
        /\ (FrameStep /\ last'.r # "failed") => button'.text # FailedLabel.text
        /\ (ClickStep /\ ~button.disabled) =>
             (last'.r = "accepted" /\ rafQueue' = rafQueue + 1)]_vars

\* drawImage threw inside the toggle callback and the catch block ran.
C13_Witness ==
  /\ last = Event("toggle2D", "failed")
  /\ button = FailedLabel
  /\ ~is3D
  /\ rafQueue = 0


(***************************************************************************)
(* The cache flag and the composition                                      *)
(***************************************************************************)
\* C14: whenever map2DRendered is true both datasets are loaded and the
\* offscreen buffer holds the map composed from them at the buffer's current
\* width and height; the step that sets the flag is a deferred callback that
\* leaves the whole composition in the buffer.
C14_FlagMeansComposed ==
  /\ [](map2DRendered =>
          /\ BothLoaded
          /\ offscreen.ops =
               ComposedMap(landData, outlineData, offscreen.width, offscreen.height))
  /\ [][(~map2DRendered /\ map2DRendered') =>
          /\ TimerStep
          /\ BothLoaded
          /\ UNCHANGED <<landData, outlineData>>
          /\ offscreen'.width = offscreen.width
          /\ offscreen'.height = offscreen.height
          /\ offscreen'.ops =
               ComposedMap(landData, outlineData, offscreen.width, offscreen.height)]_vars

\* The map was composed again after a resize had dropped it.
C14_Witness ==
  /\ map2DRendered
  /\ resizeCount > 0
  /\ last.r = "composed"
  /\ offscreen.ops # <<>>


\* The blocks of a feature list, one after the other in list order.
RECURSIVE FeatureBlocks(_, _, _, _, _)
FeatureBlocks(features, i, paint, width, height) ==
  IF i > Len(features) THEN <<>>
  ELSE FeatureBlock(features[i], paint, width, height)
       \o FeatureBlocks(features, i + 1, paint, width, height)

\* Ocean, then every land feature filled, then every border feature stroked.
ExpectedComposition(land, outline, width, height) ==
  <<Op("fillRect", R(width), R(height))>>
  \o FeatureBlocks(land.features.v, 1, "fill", width, height)
  \o FeatureBlocks(outline.features.v, 1, "stroke", width, height)

CountOps(ops, name) == Cardinality({k \in 1..Len(ops) : ops[k].op = name})

\* C15: every call of render2DMapOffscreen that draws leaves in the cleared
\* buffer, in this order, the ocean fill of the whole buffer, then for each
\* land feature in list order its beginPath, its path and its fill, then for
\* each border feature in list order its beginPath, its path and its stroke,
\* and sets map2DRendered in the same call, after the last stroke.
C15_FixedCompositionOrder ==
  [][(TimerStep /\ offscreen' # offscreen) =>
       /\ offscreen.ops = <<>>
       /\ UNCHANGED <<landData, outlineData>>
       /\ offscreen'.width = offscreen.width
       /\ offscreen'.height = offscreen.height
       /\ offscreen'.ops = ExpectedComposition(landData, outlineData,
                                               offscreen.width, offscreen.height)
       /\ offscreen'.ops[1].op = "fillRect"
       /\ offscreen'.ops[Len(offscreen'.ops)].op = "stroke"
       /\ CountOps(offscreen'.ops, "beginPath")
            = Len(landData.features.v) + Len(outlineData.features.v)
       /\ \A j, k \in 1..Len(offscreen'.ops) :
            (offscreen'.ops[j].op = "fill" /\ offscreen'.ops[k].op = "stroke")
              => j < k
       /\ ~map2DRendered /\ map2DRendered']_vars

\* A composition of two land features and two border features has run.
C15_Witness ==
  /\ last.r = "composed"
  /\ map2DRendered
  /\ Len(landData.features.v) = 2
  /\ Len(outlineData.features.v) = 2
  /\ CountOps(offscreen.ops, "fill") = 2
  /\ CountOps(offscreen.ops, "stroke") = 2


(***************************************************************************)
(* What the visible 2D canvas receives                                     *)
(***************************************************************************)
\* A step that calls display2DMap: a render-then-display callback, or a
\* toggle to 2D that finds the map cached.
DisplayStep ==
  \/ TimerStep /\ Head(timers).cb = "renderDisplay"
  \/ FrameStep /\ last'.r \in {"blit", "failed"}

\* C16: display2DMap is called only when map2DRendered is true at the call,
\* and whenever the visible canvas holds a blitted image that image is the
\* map composed from both datasets at the current size, never a buffer that
\* is uncomposed or that a resize cleared.
C16_DisplayOnlyWhenRendered ==
  /\ [][DisplayStep => map2DRendered']_vars
  /\ [](canvas2D.kind = "blit" => IsFreshMap(canvas2D.img))

\* No toggle callback and no deferred callback is pending.
Settled == rafQueue = 0 /\ timers = <<>>

\* C17: in a run without a resize, once the page is in 2D, both datasets
\* are loaded and every pending callback has fired, the visible 2D canvas
\* shows the composed map, whatever the order of the toggle and the loads.
C17_MapShownOnceSettled ==
  (~is3D /\ BothLoaded /\ Settled /\ resizeCount = 0) =>
     (canvas2D.kind = "blit" /\ IsFreshMap(canvas2D.img))


(***************************************************************************)
(* Mode, visibility and label                                              *)
(***************************************************************************)
Shown(style) == style # "none"

ModeLabel == IF is3D THEN "Switch to 2D Map" ELSE "Switch to 3D Globe"

ModeMatchesDisplay ==
  /\ Shown(display.canvas2D) <=> ~is3D
  /\ Shown(display.renderer) <=> is3D

\* C18 as stated: exactly one canvas is displayed, the 2D canvas if and only
\* if is3D is false and the renderer's canvas if and only if is3D is true,
\* and whenever the button is enabled its label names the opposite mode.
C18_LabelAlwaysNamesOtherMode ==
  /\ ModeMatchesDisplay
  /\ ~button.disabled => button.text = ModeLabel

\* C18: exactly one canvas is displayed, the 2D canvas if and only if is3D
\* is false and the renderer's canvas if and only if is3D is true; a toggle
\* callback that did not throw leaves the label naming the opposite mode, one
\* that threw leaves 'Toggle Failed - Try Again' with the page in 2D, and
\* the enabled button carries one of these two labels.
C18_ModeDisplayAndLabel ==
  /\ [](ModeMatchesDisplay)
  /\ [](~button.disabled => button.text \in {ModeLabel, FailedLabel.text})
  /\ [](button.text = FailedLabel.text => ~is3D)
  /\ [][FrameStep =>
          button'.text = IF last'.r = "failed"
                         THEN FailedLabel.text
                         ELSE IF is3D' THEN "Switch to 2D Map"
                                       ELSE "Switch to 3D Globe"]_vars

\* A toggle to 2D went through: the 2D canvas is the displayed one and the
\* button offers the way back.
C18_Witness ==
  /\ last.ev = "toggle2D"
  /\ last.r # "failed"
  /\ ~is3D
  /\ display = [canvas2D |-> "block", renderer |-> "none"]
  /\ button = [disabled |-> FALSE, text |-> "Switch to 3D Globe"]

\* The visible 2D canvas holds pixels: the placeholder or a composed map.
HoldsContent(canvas) ==
  \/ canvas.kind = "placeholder"
  \/ canvas.kind = "blit" /\ canvas.img # <<>>

\* C19: whenever the page is in 3D mode the visible 2D canvas holds no
\* drawn content.
C19_Canvas2DBlankIn3D == is3D => ~HoldsContent(canvas2D)

====
